---- MODULE Spec2Model ----
(***************************************************************************)
(* Model of the authenticated-request pipeline of go-oceanconnect:         *)
(* Client.doRequest (src/client.go:85-98) with the session fields token    *)
(* and tokenExpires and the mutex reqLock (src/client.go:37-43).           *)
(* Time is counted in seconds.  Every dispatch call is one goroutine.      *)
(***************************************************************************)
EXTENDS Integers, FiniteSets, Sequences, TLC

\* ---- bounds of the model ----
NumCalls == 2          \* dispatch calls (goroutines calling doRequest)
MaxTicks == 1          \* how often the clock advances
StartTime == 1000      \* clock reading when the client is constructed

\* ---- program constants ----
Margin == 300          \* time.Minute * 5, in seconds
ZeroTime == 0          \* zero value of time.Time

Procs == 1..NumCalls
None == 0              \* nobody (no lock holder, no accessor)
User == NumCalls + 1   \* a goroutine that calls the exported Login directly
NoToken == ""          \* zero value of the token string
Tokens == {"T1", "T2"} \* tokens the login endpoint grants
\* the endpoint grants a token that differs from the one it replaces
Granted(old) == IF old = "T1" THEN "T2" ELSE "T1"
ExpiresIn == {200, 300, 3600}  \* seconds-until-expiry the endpoint may grant
Delays == {10, 3400}   \* amounts by which the clock advances
LoginErrs == {"netErr", "badStatus", "badBody"}

VARIABLES
  now,          \* time.Now()
  ticks,        \* number of clock advances so far
  token,        \* Client.token
  tokenExpires, \* Client.tokenExpires
  reqLock,      \* Client.reqLock: the holder, or None
  pc,           \* position of each dispatch call in doRequest
  inflight,     \* network calls in flight: <<caller, "login" | "primary">>
  logins,       \* login network calls issued by each dispatch
  primaries,    \* primary network calls (c.c.Do) issued by each dispatch
  loginRes,     \* outcome of the dispatch's login
  result,       \* what the dispatch returned
  hdr,          \* Authorization header attached by the dispatch
  attExpires,   \* tokenExpires when the header was attached
  attNow,       \* clock when the header was attached
  chkToken,     \* token when the dispatch evaluated line 88
  chkExpires,   \* tokenExpires when the dispatch evaluated line 88
  chkNow,       \* clock when the dispatch evaluated line 88
  ticket,       \* order in which the dispatches acquired reqLock
  raced,        \* the dispatch was called before any login was issued
  accessor,     \* who touched token/tokenExpires in the last step
  upc,          \* position of the direct caller of Login
  upend         \* login response the direct caller is storing

vars == <<now, ticks, token, tokenExpires, reqLock, pc, inflight, logins,
          primaries, loginRes, result, hdr, attExpires, attNow, chkToken,
          chkExpires, chkNow, ticket, raced, accessor, upc, upend>>

hist == <<attExpires, attNow, chkToken, chkExpires, chkNow, ticket, raced>>

NoHdr == "none"

Init ==
  /\ now = StartTime
  /\ ticks = 0
  /\ token = NoToken
  /\ tokenExpires = ZeroTime
  /\ reqLock = None
  /\ pc = [p \in Procs |-> "idle"]
  /\ inflight = {}
  /\ logins = [p \in Procs |-> 0]
  /\ primaries = [p \in Procs |-> 0]
  /\ loginRes = [p \in Procs |-> "none"]
  /\ result = [p \in Procs |-> "none"]
  /\ hdr = [p \in Procs |-> NoHdr]
  /\ attExpires = [p \in Procs |-> 0]
  /\ attNow = [p \in Procs |-> 0]
  /\ chkToken = [p \in Procs |-> NoToken]
  /\ chkExpires = [p \in Procs |-> 0]
  /\ chkNow = [p \in Procs |-> 0]
  /\ ticket = [p \in Procs |-> 0]
  /\ raced = [p \in Procs |-> FALSE]
  /\ accessor = None
  /\ upc = "idle"
  /\ upend = <<NoToken, ZeroTime>>

\* t.Before(u) of the time package
Before(t, u) == t < u

\* Stale with the boundary on the wrong side (not-after instead of before)
StaleLe(exp, t) == exp <= t + Margin

\* the condition of line 88: c.tokenExpires.Before(time.Now().Add(time.Minute * 5))
Stale(exp, t) == Before(exp, t + Margin)

\* a goroutine calls request/doRequest and blocks at c.reqLock.Lock()
Call(p) ==
  /\ pc[p] = "idle"
  /\ pc' = [pc EXCEPT ![p] = "wait"]
  /\ raced' = [raced EXCEPT ![p] = \A q \in Procs : logins[q] = 0]
  /\ accessor' = None
  /\ UNCHANGED <<now, ticks, token, tokenExpires, reqLock, inflight, logins,
                 primaries, loginRes, result, hdr, attExpires, attNow,
                 chkToken, chkExpires, chkNow, ticket, upc, upend>>

\* Lock that does not wait for the holder to release
LockNoExcl(p) ==
  /\ pc[p] = "wait"
  /\ reqLock' = p
  /\ pc' = [pc EXCEPT ![p] = "locked"]
  /\ ticket' = [ticket EXCEPT ![p] = Cardinality({q \in Procs : ticket[q] > 0}) + 1]
  /\ accessor' = None
  /\ UNCHANGED <<now, ticks, token, tokenExpires, inflight, logins, primaries,
                 loginRes, result, hdr, attExpires, attNow, chkToken,
                 chkExpires, chkNow, raced, upc, upend>>

\* c.reqLock.Lock() returns
Lock(p) ==
  /\ pc[p] = "wait"
  /\ reqLock = None
  /\ reqLock' = p
  /\ pc' = [pc EXCEPT ![p] = "locked"]
  /\ ticket' = [ticket EXCEPT ![p] = Cardinality({q \in Procs : ticket[q] > 0}) + 1]
  /\ accessor' = None
  /\ UNCHANGED <<now, ticks, token, tokenExpires, inflight, logins, primaries,
                 loginRes, result, hdr, attExpires, attNow, chkToken,
                 chkExpires, chkNow, raced, upc, upend>>

\* lines 94-97: attach the headers with the token tk (expiry ex) and issue c.c.Do
AttachAndDo(p, tk, ex) ==
  /\ hdr' = [hdr EXCEPT ![p] = tk]
  /\ attExpires' = [attExpires EXCEPT ![p] = ex]
  /\ attNow' = [attNow EXCEPT ![p] = now]
  /\ primaries' = [primaries EXCEPT ![p] = @ + 1]
  /\ inflight' = (inflight \ {<<p, "login">>}) \cup {<<p, "primary">>}
  /\ pc' = [pc EXCEPT ![p] = "do"]

\* CheckStale that gives the lock up while the login is in flight
CheckStaleUnlocked(p) ==
  /\ pc[p] = "locked"
  /\ Stale(tokenExpires, now)
  /\ chkToken' = [chkToken EXCEPT ![p] = token]
  /\ chkExpires' = [chkExpires EXCEPT ![p] = tokenExpires]
  /\ chkNow' = [chkNow EXCEPT ![p] = now]
  /\ logins' = [logins EXCEPT ![p] = @ + 1]
  /\ inflight' = inflight \cup {<<p, "login">>}
  /\ pc' = [pc EXCEPT ![p] = "login"]
  /\ reqLock' = None
  /\ accessor' = p
  /\ UNCHANGED <<now, ticks, token, tokenExpires, primaries, loginRes,
                 result, hdr, attExpires, attNow, ticket, raced, upc, upend>>

\* line 88 finds the session stale: line 89 calls Login, which issues its request
CheckStale(p) ==
  /\ pc[p] = "locked"
  /\ Stale(tokenExpires, now)
  /\ chkToken' = [chkToken EXCEPT ![p] = token]
  /\ chkExpires' = [chkExpires EXCEPT ![p] = tokenExpires]
  /\ chkNow' = [chkNow EXCEPT ![p] = now]
  /\ logins' = [logins EXCEPT ![p] = @ + 1]
  /\ inflight' = inflight \cup {<<p, "login">>}
  /\ pc' = [pc EXCEPT ![p] = "login"]
  /\ accessor' = p
  /\ UNCHANGED <<now, ticks, token, tokenExpires, reqLock, primaries, loginRes,
                 result, hdr, attExpires, attNow, ticket, raced, upc, upend>>

\* line 88 finds the session fresh: lines 94-97
CheckFresh(p) ==
  /\ pc[p] = "locked"
  /\ ~Stale(tokenExpires, now)
  /\ chkToken' = [chkToken EXCEPT ![p] = token]
  /\ chkExpires' = [chkExpires EXCEPT ![p] = tokenExpires]
  /\ chkNow' = [chkNow EXCEPT ![p] = now]
  /\ AttachAndDo(p, token, tokenExpires)
  /\ accessor' = p
  /\ UNCHANGED <<now, ticks, token, tokenExpires, reqLock, logins, loginRes,
                 result, ticket, raced, upc, upend>>

\* Login succeeds: the session is replaced by what the server granted
LoginStore(tk, e) ==
  /\ token' = tk
  /\ tokenExpires' = now + e

\* Login fails: the session is left as it was
LoginKeep ==
  UNCHANGED <<token, tokenExpires>>

\* line 89 returns nil: lines 94-97 follow
LoginOk(p) ==
  /\ pc[p] = "login"
  /\ \E e \in ExpiresIn :
       /\ LoginStore(Granted(token), e)
       /\ AttachAndDo(p, Granted(token), now + e)
  /\ loginRes' = [loginRes EXCEPT ![p] = "ok"]
  /\ accessor' = p
  /\ UNCHANGED <<now, ticks, reqLock, logins, result, chkToken, chkExpires,
                 chkNow, ticket, raced, upc, upend>>

\* LoginFail that ignores the error and goes on to lines 94-97
LoginFailProceed(p) ==
  /\ pc[p] = "login"
  /\ LoginKeep
  /\ \E k \in LoginErrs : loginRes' = [loginRes EXCEPT ![p] = k]
  /\ AttachAndDo(p, token, tokenExpires)
  /\ accessor' = p
  /\ UNCHANGED <<now, ticks, reqLock, logins, result, chkToken, chkExpires,
                 chkNow, ticket, raced, upc, upend>>

\* LoginFail that remembers the failure by pushing the expiry forward
LoginFailCached(p) ==
  /\ pc[p] = "login"
  /\ token' = token
  /\ tokenExpires' = now + 3600
  /\ \E k \in LoginErrs :
       /\ loginRes' = [loginRes EXCEPT ![p] = k]
       /\ result' = [result EXCEPT ![p] = k]
  /\ inflight' = inflight \ {<<p, "login">>}
  /\ reqLock' = None
  /\ pc' = [pc EXCEPT ![p] = "done"]
  /\ accessor' = p
  /\ UNCHANGED <<now, ticks, logins, primaries, hdr, upc, upend>>
  /\ UNCHANGED hist

\* LoginFail that returns without releasing reqLock
LoginFailNoUnlock(p) ==
  /\ pc[p] = "login"
  /\ LoginKeep
  /\ \E k \in LoginErrs :
       /\ loginRes' = [loginRes EXCEPT ![p] = k]
       /\ result' = [result EXCEPT ![p] = k]
  /\ inflight' = inflight \ {<<p, "login">>}
  /\ pc' = [pc EXCEPT ![p] = "done"]
  /\ accessor' = None
  /\ UNCHANGED <<now, ticks, reqLock, logins, primaries, hdr, upc, upend>>
  /\ UNCHANGED hist

\* line 89 returns an error: lines 90-92 return it, the deferred Unlock runs
LoginFail(p) ==
  /\ pc[p] = "login"
  /\ LoginKeep
  /\ \E k \in LoginErrs :
       /\ loginRes' = [loginRes EXCEPT ![p] = k]
       /\ result' = [result EXCEPT ![p] = k]
  /\ inflight' = inflight \ {<<p, "login">>}
  /\ reqLock' = None
  /\ pc' = [pc EXCEPT ![p] = "done"]
  /\ accessor' = None
  /\ UNCHANGED <<now, ticks, logins, primaries, hdr, upc, upend>>
  /\ UNCHANGED hist

\* PrimaryReturn that drops the session when the transport fails
PrimaryReturnInvalidate(p) ==
  /\ pc[p] = "do"
  /\ \E r \in {"resp", "transportErr"} :
       /\ result' = [result EXCEPT ![p] = r]
       /\ token' = IF r = "transportErr" THEN NoToken ELSE token
       /\ tokenExpires' = IF r = "transportErr" THEN ZeroTime ELSE tokenExpires
  /\ inflight' = inflight \ {<<p, "primary">>}
  /\ reqLock' = None
  /\ pc' = [pc EXCEPT ![p] = "done"]
  /\ accessor' = None
  /\ UNCHANGED <<now, ticks, logins, primaries, loginRes, hdr, upc, upend>>
  /\ UNCHANGED hist

\* PrimaryReturn that sends the request once more after a transport error
PrimaryReturnRetry(p) ==
  /\ pc[p] = "do"
  /\ \/ /\ primaries[p] < 2
        /\ primaries' = [primaries EXCEPT ![p] = @ + 1]
        /\ UNCHANGED <<result, inflight, reqLock, pc>>
     \/ /\ \E r \in {"resp", "transportErr"} : result' = [result EXCEPT ![p] = r]
        /\ inflight' = inflight \ {<<p, "primary">>}
        /\ reqLock' = None
        /\ pc' = [pc EXCEPT ![p] = "done"]
        /\ UNCHANGED primaries
  /\ accessor' = None
  /\ UNCHANGED <<now, ticks, token, tokenExpires, logins, loginRes,
                 hdr, upc, upend>>
  /\ UNCHANGED hist

\* line 97: c.c.Do returns a response or a transport error; the deferred Unlock runs
PrimaryReturn(p) ==
  /\ pc[p] = "do"
  /\ \E r \in {"resp", "transportErr"} : result' = [result EXCEPT ![p] = r]
  /\ inflight' = inflight \ {<<p, "primary">>}
  /\ reqLock' = None
  /\ pc' = [pc EXCEPT ![p] = "done"]
  /\ accessor' = None
  /\ UNCHANGED <<now, ticks, token, tokenExpires, logins, primaries, loginRes,
                 hdr, upc, upend>>
  /\ UNCHANGED hist

\* the clock advances
Tick ==
  /\ ticks < MaxTicks
  /\ ticks' = ticks + 1
  /\ \E d \in Delays : now' = now + d
  /\ accessor' = None
  /\ UNCHANGED <<token, tokenExpires, reqLock, pc, inflight, logins, primaries,
                 loginRes, result, hdr, upc, upend>>
  /\ UNCHANGED hist

Next ==
  \/ \E p \in Procs : Call(p)
  \/ \E p \in Procs : Lock(p)
  \/ \E p \in Procs : CheckStale(p)
  \/ \E p \in Procs : CheckFresh(p)
  \/ \E p \in Procs : LoginOk(p)
  \/ \E p \in Procs : LoginFail(p)
  \/ \E p \in Procs : PrimaryReturn(p)
  \/ Tick

Spec == Init /\ [][Next]_vars

\* ---- the exported Login called directly, outside doRequest ----

\* a goroutine calls c.Login() itself: the login request goes out, no lock taken
DirectLoginCall ==
  /\ upc = "idle"
  /\ upc' = "login"
  /\ inflight' = inflight \cup {<<User, "login">>}
  /\ accessor' = None
  /\ UNCHANGED <<now, ticks, token, tokenExpires, reqLock, pc, logins,
                 primaries, loginRes, result, hdr, upend>>
  /\ UNCHANGED hist

\* the direct login fails: nothing is stored
DirectLoginFail ==
  /\ upc = "login"
  /\ upc' = "done"
  /\ inflight' = inflight \ {<<User, "login">>}
  /\ LoginKeep
  /\ accessor' = None
  /\ UNCHANGED <<now, ticks, reqLock, pc, logins, primaries, loginRes, result,
                 hdr, upend>>
  /\ UNCHANGED hist

\* the direct login gets its response and starts to store it
DirectLoginRecv ==
  /\ upc = "login"
  /\ \E e \in ExpiresIn : upend' = <<Granted(token), now + e>>
  /\ upc' = "store"
  /\ inflight' = inflight \ {<<User, "login">>}
  /\ accessor' = None
  /\ UNCHANGED <<now, ticks, token, tokenExpires, reqLock, pc, logins,
                 primaries, loginRes, result, hdr>>
  /\ UNCHANGED hist

\* the two unsynchronised writes of the direct login, in either order
DirectStoreToken ==
  /\ upc \in {"store", "wroteExpires"}
  /\ token' = upend[1]
  /\ upc' = IF upc = "store" THEN "wroteToken" ELSE "done"
  /\ accessor' = User
  /\ UNCHANGED <<now, ticks, tokenExpires, reqLock, pc, inflight, logins,
                 primaries, loginRes, result, hdr, upend>>
  /\ UNCHANGED hist

DirectStoreExpires ==
  /\ upc \in {"store", "wroteToken"}
  /\ tokenExpires' = upend[2]
  /\ upc' = IF upc = "store" THEN "wroteExpires" ELSE "done"
  /\ accessor' = User
  /\ UNCHANGED <<now, ticks, token, reqLock, pc, inflight, logins,
                 primaries, loginRes, result, hdr, upend>>
  /\ UNCHANGED hist

NextDirect ==
  \/ \E p \in Procs : Call(p)
  \/ \E p \in Procs : Lock(p)
  \/ \E p \in Procs : CheckStale(p)
  \/ \E p \in Procs : CheckFresh(p)
  \/ \E p \in Procs : LoginOk(p)
  \/ \E p \in Procs : LoginFail(p)
  \/ \E p \in Procs : PrimaryReturn(p)
  \/ Tick
  \/ DirectLoginCall
  \/ DirectLoginFail
  \/ DirectLoginRecv
  \/ DirectStoreToken
  \/ DirectStoreExpires

SpecDirect == Init /\ [][NextDirect]_vars

\* a step of doRequest: the lock is granted, the check runs, a network call returns
Progress ==
  \E p \in Procs :
    \/ Lock(p)
    \/ CheckStale(p)
    \/ CheckFresh(p)
    \/ LoginOk(p)
    \/ LoginFail(p)
    \/ PrimaryReturn(p)

\* every network call returns and a free lock is granted to a waiting caller
Fairness == WF_vars(Progress)

FairSpec == Spec /\ Fairness

\* ---- helpers of the properties ----

RECURSIVE SumTo(_, _)
SumTo(f, n) == IF n = 0 THEN 0 ELSE f[n] + SumTo(f, n - 1)

TotalLogins == SumTo(logins, NumCalls)

Checked(p) == pc[p] \in {"login", "do", "done"}
InCritical(p) == pc[p] \in {"locked", "login", "do"}

\* ---- properties ----

\* C1: every primary call that carries the Authorization header uses a token
\* whose recorded expiry was, when the header was attached, at least the
\* safety margin ahead of the clock, whatever expiry the login granted.
C1_Freshness ==
  \A p \in Procs : hdr[p] # NoHdr => attExpires[p] >= attNow[p] + Margin

\* C2 (as stated): when all dispatch calls are made concurrently on a client
\* without a valid session, exactly one login call is issued in total.
C2_SingleLogin ==
  (\A p \in Procs : raced[p] /\ pc[p] = "done") => TotalLogins = 1

C2_Premise ==
  /\ \A p \in Procs : raced[p] /\ pc[p] = "done"
  /\ \A p \in Procs : loginRes[p] \notin LoginErrs
  /\ \A p \in Procs :
       ~(chkToken[p] # NoToken /\ chkExpires[p] < chkNow[p] + Margin)

\* C2 (amended): when all dispatch calls are made concurrently on a client
\* without a valid session, the login succeeds and the token it stores is
\* still at least the safety margin from expiry when each other call checks
\* it, exactly one login call is issued in total and the other calls issue
\* their primary request with that token and no login.
C2_SingleLoginWhenGranted ==
  C2_Premise =>
    /\ TotalLogins = 1
    /\ \A p \in Procs :
         logins[p] = 0 => primaries[p] = 1 /\ hdr[p] = token /\ hdr[p] # NoToken

C2_Witness ==
  /\ C2_Premise
  /\ \E p, q \in Procs : logins[p] = 1 /\ logins[q] = 0 /\ hdr[q] = hdr[p]

\* C3: no two network calls (login or primary) of one client overlap, and at
\* most one caller is between Lock and Unlock of doRequest.
C3_Serialization ==
  /\ Cardinality(inflight) <= 1
  /\ Cardinality({p \in Procs : InCritical(p)}) <= 1

C3_Witness ==
  \E p, q \in Procs : pc[p] = "do" /\ pc[q] = "wait" /\ logins[p] = 1

\* C4: a failing login leaves token and tokenExpires as they were, and a step
\* changes either of them only by storing the result of a successful login.
C4_NoPartialUpdate ==
  [][ /\ \A p \in Procs :
           (pc[p] = "login" /\ loginRes'[p] \in LoginErrs)
             => (token' = token /\ tokenExpires' = tokenExpires)
      /\ (token' # token \/ tokenExpires' # tokenExpires)
           => \E p \in Procs : /\ pc[p] = "login"
                               /\ loginRes'[p] = "ok"
                               /\ token' = hdr'[p]
                               /\ tokenExpires' = attExpires'[p] ]_vars

C4_Witness ==
  \E p, q \in Procs :
    /\ loginRes[q] = "ok"
    /\ loginRes[p] \in LoginErrs
    /\ token = hdr[q]
    /\ tokenExpires = attExpires[q]

\* C5: every access to token or tokenExpires, on every code path including a
\* direct call of the exported Login, is made by the holder of reqLock.
C5_LockedAccess ==
  accessor # None => reqLock = accessor

\* C6: a dispatch issues a login exactly when, at its check, the token is
\* missing or the expiry is less than the margin ahead of the clock; the login
\* has returned before the primary request goes out; otherwise the dispatch
\* sends the stored token and issues no login.
C6_LoginIffStale ==
  \A p \in Procs :
    Checked(p) =>
      /\ logins[p] \in {0, 1}
      /\ (logins[p] = 1) <=>
           (chkToken[p] = NoToken \/ chkExpires[p] < chkNow[p] + Margin)
      /\ (primaries[p] > 0 /\ logins[p] = 1)
           => (loginRes[p] = "ok" /\ <<p, "login">> \notin inflight)
      /\ logins[p] = 0 => (primaries[p] = 1 /\ hdr[p] = chkToken[p])

C6_Witness ==
  \E p, q \in Procs :
    /\ loginRes[q] = "ok"
    /\ attExpires[q] = attNow[q] + 3600
    /\ pc[p] = "do"
    /\ logins[p] = 0
    /\ chkNow[p] = attNow[q] + 10
    /\ hdr[p] = hdr[q]

\* C7: a dispatch whose login failed returns that error, issues no primary
\* call and attaches no Authorization header.
C7_LoginErrorAborts ==
  \A p \in Procs :
    loginRes[p] \in LoginErrs =>
      /\ pc[p] = "done"
      /\ result[p] = loginRes[p]
      /\ primaries[p] = 0
      /\ hdr[p] = NoHdr
      /\ <<p, "primary">> \notin inflight

C7_Witness ==
  \E p \in Procs : loginRes[p] = "badBody" /\ pc[p] = "done"

NoOkBefore(p) ==
  \A r \in Procs : (ticket[r] > 0 /\ ticket[r] < ticket[p]) => loginRes[r] # "ok"

\* C8: after a dispatch on a never-authenticated client failed on a
\* non-success login status, the session stays unauthenticated (empty token,
\* zero expiry) and every later dispatch issues a login of its own.
C8_RetryAfterFailure ==
  /\ ((\E q \in Procs : loginRes[q] = "badStatus")
        /\ (\A p \in Procs : loginRes[p] # "ok"))
       => (token = NoToken /\ tokenExpires = ZeroTime)
  /\ \A p, q \in Procs :
       ( /\ ticket[q] > 0
         /\ ticket[q] < ticket[p]
         /\ loginRes[q] = "badStatus"
         /\ NoOkBefore(p)
         /\ Checked(p) )
       => (logins[p] = 1 /\ chkToken[p] = NoToken /\ chkExpires[p] = ZeroTime)

C8_Witness ==
  \E p, q \in Procs :
    /\ ticket[q] > 0
    /\ ticket[q] < ticket[p]
    /\ loginRes[q] = "badStatus"
    /\ logins[p] = 1
    /\ loginRes[p] = "ok"

\* C9: a dispatch issues at most one login call and at most one primary call;
\* a login failure or a transport error of the primary call ends the dispatch
\* with that error.
C9_NoRetries ==
  \A p \in Procs :
    /\ logins[p] <= 1
    /\ primaries[p] <= 1
    /\ result[p] \in LoginErrs => (pc[p] = "done" /\ logins[p] = 1 /\ primaries[p] = 0)
    /\ result[p] = "transportErr" => (pc[p] = "done" /\ primaries[p] = 1)

C9_Witness ==
  \E p, q \in Procs : result[p] = "transportErr" /\ result[q] \in LoginErrs

LockFreeWhenIdle ==
  (\A p \in Procs : ~InCritical(p)) => reqLock = None

\* C10: reqLock is free whenever no dispatch is between Lock and return, and
\* (network calls return, the lock is fair) every caller of a dispatch
\* eventually returns.
C10_LockReleased ==
  /\ []LockFreeWhenIdle
  /\ \A p \in Procs : (pc[p] = "wait") ~> (pc[p] = "done")

C10_Witness ==
  \E p, q \in Procs :
    /\ ticket[q] > 0
    /\ ticket[q] < ticket[p]
    /\ result[q] \in LoginErrs
    /\ pc[p] = "done"
    /\ reqLock = None
====
